---------------------------- MODULE Spec2Model ----------------------------
(***************************************************************************)
(* Model of the SBD (sentence boundary detection) turn-and-merge engine    *)
(* of src/utils/sbd_processor.py: is_backchannel, group_turns,             *)
(* boundary_score, merge_within_turn, sbd_merge_messages and               *)
(* process_sbd_merge.                                                      *)
(*                                                                         *)
(* Python values are tagged records: None, str, int, bool, datetime.  A    *)
(* dict with the keys date/user/message/is_backchannel/datetime/turn_id is *)
(* a record with those six fields; a key the dict does not have holds      *)
(* Absent.  A str is the sequence of its characters; a character is an     *)
(* ASCII token (the table is below).  A Python exception is the name of    *)
(* its class; every function that can raise returns [exc, val].            *)
(***************************************************************************)
EXTENDS Integers, Sequences, FiniteSets, TLC

(***************************************************************************)
(* Python values                                                           *)
(***************************************************************************)
None == [t |-> "None"]
Absent == [t |-> "absent"]
PyStr(s) == [t |-> "str", s |-> s]
PyInt(i) == [t |-> "int", i |-> i]
PyBool(b) == [t |-> "bool", b |-> b]
PyDatetime(sec, aware) == [t |-> "datetime", sec |-> sec, aware |-> aware]

IsStr(v) == v.t = "str"
IsNone(v) == v.t = "None"

\* Python truth value of v (the `not text`, `x or y`, `if ts and prev_ts` tests).
Truthy(v) ==
    CASE v.t = "None" -> FALSE
      [] v.t = "str" -> v.s # <<>>
      [] v.t = "int" -> v.i # 0
      [] v.t = "bool" -> v.b
      [] OTHER -> TRUE

\* dict.get(key, default) on a field value.
Get(v, default) == IF v = Absent THEN default ELSE v

\* The result of a call: the value returned, or the exception raised.
Return(v) == [exc |-> "", val |-> v]
Raise(e) == [exc |-> e, val |-> None]

(***************************************************************************)
(* Characters.  Tokens stand for the code points of the source's patterns: *)
(*   " " space   "." "?" "!" "," "~" "'"   "ELLIPSIS" U+2026               *)
(*   "Z" "+00:00" only inside date strings                                 *)
(*   jamo: "k_" ㅋ  "h_" ㅎ  "yu_" ㅠ  "u_" ㅜ  "ng_" ㅇ                     *)
(*   syllables: da 다, yo 요, jyo 죠, ne 네, seup 습, ni 니, kka 까,        *)
(*   haet 했, eo 어, get 겠, raet 랬, rat 랐, gun 군, gu 구, na 나,         *)
(*   gat 같, a 아, neun 는, de 데, go 고, seo 서, myeon 면, ga 가,          *)
(*   deo 더, ja 자, myeo 며, ji 지, man 만, ra 라, deun 든, geo 거,         *)
(*   ryeo 려, eun 은, i 이, eul 을, reul 를, e 에, eu 으, ro 로, wa 와,     *)
(*   gwa 과, rang 랑, ha 하, bo 보, cheo 처, reom 럼, bu 부, teo 터,        *)
(*   bak 밖, ge 게, kke 께, ui 의, geu 그, ri 리, geun 근, rae 래,          *)
(*   reon 런, ttae 때, eum 음, tto 또, reo 러, ung 웅, eung 응, eong 엉,    *)
(*   o 오, heok 헉, heol 헐, at 앗, nep 넵,                                 *)
(*   an 안, nyeong 녕, bap 밥, meok 먹, eot 었, neul 늘, jip 집, gass 갔,   *)
(*   bi 비, wat 왔, suk 숙, je 제, jal 잘 (syllables that are in no        *)
(*   pattern)                                                              *)
(***************************************************************************)
Whitespace == {" "}
\* Unicode categories P and S among the tokens.
PunctOrSymbol == {".", "?", "!", ",", "~", "'", "ELLIPSIS"}
\* \w: everything else (Hangul syllables and jamo are letters).
IsWordChar(c) == c \notin Whitespace /\ c \notin PunctOrSymbol

(***************************************************************************)
(* str methods                                                             *)
(***************************************************************************)
Last(s) == s[Len(s)]

EndsWith(s, suf) ==
    /\ Len(suf) <= Len(s)
    /\ SubSeq(s, Len(s) - Len(suf) + 1, Len(s)) = suf

StartsWith(s, pre) ==
    /\ Len(pre) <= Len(s)
    /\ SubSeq(s, 1, Len(pre)) = pre

RECURSIVE LStrip(_)
LStrip(s) ==
    IF s # <<>> /\ Head(s) \in Whitespace THEN LStrip(Tail(s)) ELSE s

RECURSIVE RStrip(_)
RStrip(s) ==
    IF s # <<>> /\ Last(s) \in Whitespace
        THEN RStrip(SubSeq(s, 1, Len(s) - 1))
        ELSE s

\* str.strip()
Strip(s) == RStrip(LStrip(s))

\* str.split(): the maximal runs of non-whitespace characters.
RECURSIVE Split(_)
Split(s) ==
    LET t == LStrip(s)
        n == IF \E k \in 1..Len(t) : t[k] \in Whitespace
                 THEN (CHOOSE k \in 1..Len(t) :
                          /\ t[k] \in Whitespace
                          /\ \A j \in 1..(k - 1) : t[j] \notin Whitespace) - 1
                 ELSE Len(t)
    IN  IF t = <<>> THEN <<>>
        ELSE <<SubSeq(t, 1, n)>> \o Split(SubSeq(t, n + 1, Len(t)))

\* re.sub(r"[\p{P}\p{S}\s]+", "", t)
RemovePunctSymbolSpace(s) ==
    SelectSeq(s, LAMBDA c : c \notin PunctOrSymbol /\ c \notin Whitespace)

(***************************************************************************)
(* Signal detectors: the compiled patterns of lines 15-63, each as the     *)
(* test its .search()/.fullmatch() makes on a stripped string.             *)
(***************************************************************************)
\* An alternation of literal suffixes anchored with $.
EndsWithAny(s, sufs) == \E suf \in sufs : EndsWith(s, suf)

AllIn(s, c) == s # <<>> /\ \A k \in 1..Len(s) : s[k] = c

\* BACKCHANNEL_RE.fullmatch(t2)
BACKCHANNEL_RE(t2) ==
    \/ t2 \in {<<"ung">>, <<"eung">>, <<"eong">>, <<"eo">>, <<"a">>, <<"o">>,
               <<"heok">>, <<"heol">>, <<"at">>, <<"wa">>,
               <<"ng_", "ng_">>, <<"ng_", "k_">>}
    \/ \E c \in {"k_", "h_", "yu_", "u_", "nep", "ne"} : AllIn(t2, c)

\* Mutant of is_backchannel: nothing is a backchannel.
is_backchannel_never(text) ==
    IF Truthy(text) /\ ~IsStr(text) THEN Raise("AttributeError")
    ELSE Return(PyBool(FALSE))

\* is_backchannel(text), text any Python value.
is_backchannel(text) ==
    IF ~Truthy(text) THEN Return(PyBool(FALSE))
    ELSE IF ~IsStr(text) THEN Raise("AttributeError")
    ELSE LET t == Strip(text.s)
             t2 == RemovePunctSymbolSpace(t)
         IN  IF Len(t) > 6 THEN Return(PyBool(FALSE))
             ELSE Return(PyBool(BACKCHANNEL_RE(t2)))

\* END_PUNCT_RE.search(pt): [.?!]+$
END_PUNCT_RE(pt) == pt # <<>> /\ Last(pt) \in {".", "?", "!"}

\* ELLIPSIS_RE.search(pt): an ellipsis, 3+ dots or 2+ tildes at the end
ELLIPSIS_RE(pt) ==
    EndsWithAny(pt, {<<"ELLIPSIS">>, <<".", ".", ".">>, <<"~", "~">>})

\* LAUGHTER_END.search(pt)
LAUGHTER_END(pt) == pt # <<>> /\ Last(pt) \in {"k_", "h_"}

\* END_EOMI_RE.search(pt)
END_EOMI_RE(pt) ==
    EndsWithAny(pt, {<<"da">>, <<"yo">>, <<"jyo">>, <<"ne">>, <<"ne", "yo">>,
                     <<"seup", "ni", "da">>, <<"seup", "ni", "kka">>,
                     <<"haet", "eo">>, <<"haet", "ne">>, <<"get", "ne">>,
                     <<"raet", "eo">>, <<"rat", "eo">>, <<"gun", "yo">>,
                     <<"gu", "na">>, <<"gu", "yo">>, <<"gat", "a">>,
                     <<"gat", "ne", "yo">>})

\* Mutant of CONT_EOMI_RE: a pattern that matches nothing.
ContEomiNever(pt) == FALSE

\* CONT_EOMI_RE.search(pt)
CONT_EOMI_RE(pt) ==
    EndsWithAny(pt, {<<"neun", "de">>, <<"go">>, <<"seo">>, <<"myeon", "seo">>,
                     <<"da", "ga">>, <<"deo", "ni">>, <<"ja">>, <<"myeo">>,
                     <<"ji", "man">>, <<"ra", "go">>, <<"ni", "kka">>,
                     <<"da", "ni">>, <<"deun", "ji">>, <<"geo", "na">>,
                     <<"ryeo", "ni">>})

\* PARTICLE_END_RE.search(pt)
PARTICLE_END_RE(pt) ==
    EndsWithAny(pt, {<<"eun">>, <<"neun">>, <<"i">>, <<"ga">>, <<"eul">>,
                     <<"reul">>, <<"e">>, <<"e", "seo">>, <<"eu", "ro">>,
                     <<"ro">>, <<"wa">>, <<"gwa">>, <<"rang">>, <<"ha", "go">>,
                     <<"bo", "da">>, <<"cheo", "reom">>, <<"kka", "ji">>,
                     <<"bu", "teo">>, <<"bak", "e">>, <<"e", "ge">>, <<"kke">>,
                     <<"kke", "seo">>, <<"ui">>})

\* Mutant of NEXT_CONNECTIVE_RE: a pattern that matches nothing.
NextConnectiveNever(nt) == FALSE

\* NEXT_CONNECTIVE_RE.search(nt): one of the adverbs at the start, then \b
NEXT_CONNECTIVE_RE(nt) ==
    \E w \in {<<"geu", "ri", "go">>, <<"geun", "de">>, <<"geu", "rae", "seo">>,
              <<"geu", "reon", "de">>, <<"geu", "ttae">>, <<"geu", "da", "eum">>,
              <<"tto">>, <<"ge", "da", "ga">>, <<"ha", "ji", "man">>,
              <<"geu", "reo", "da", "ga">>, <<"geu", "reo", "myeon">>,
              <<"geu", "reo", "ni", "kka">>} :
        /\ StartsWith(nt, w)
        /\ Len(nt) = Len(w) \/ ~IsWordChar(nt[Len(w) + 1])

(***************************************************************************)
(* SBDConfig (lines 65-84) with its defaults.                              *)
(***************************************************************************)
\* Mutant of SBDConfig: w_long_gap defaults to 4.
SBDConfigLongGapFour ==
    [t_merge_seconds |-> 60, t_gap_seconds |-> 25,
     w_end_punct |-> 2, w_end_eomi |-> 2, w_laughter_end |-> 1,
     w_ellipsis_end |-> 1, w_long_gap |-> 4, w_speaker_change |-> 1,
     w_cont_eomi |-> -2, w_particle_end |-> -2, w_next_connective |-> -1,
     w_next_backchannel |-> -1, theta |-> 2]

SBDConfig ==
    [t_merge_seconds |-> 60, t_gap_seconds |-> 25,
     w_end_punct |-> 2, w_end_eomi |-> 2, w_laughter_end |-> 1,
     w_ellipsis_end |-> 1, w_long_gap |-> 1, w_speaker_change |-> 1,
     w_cont_eomi |-> -2, w_particle_end |-> -2, w_next_connective |-> -1,
     w_next_backchannel |-> -1, theta |-> 2]

(***************************************************************************)
(* boundary_score (lines 129-162).  prev_text and next_text are str        *)
(* values, delta_t is a number of seconds or None.                         *)
(***************************************************************************)
\* Mutant of LongGap: the test is >= instead of >.
LongGapInclusive(delta_t, cfg) ==
    delta_t # None /\ delta_t.i >= cfg.t_gap_seconds

\* Line 147: delta_t is not None and delta_t > cfg.t_gap_seconds
LongGap(delta_t, cfg) ==
    delta_t # None /\ delta_t.i > cfg.t_gap_seconds

\* Mutant of boundary_score: the sum is clamped at 0 from below.
boundary_score_clamped(prev_text, next_text, delta_t, speaker_changed, cfg) ==
    LET pt == IF IsStr(prev_text) THEN Strip(prev_text.s) ELSE <<>>
        nt == IF IsStr(next_text) THEN Strip(next_text.s) ELSE <<>>
        add(cond, w) == IF cond THEN w ELSE 0
        sum ==   add(END_PUNCT_RE(pt), cfg.w_end_punct)
               + add(END_EOMI_RE(pt), cfg.w_end_eomi)
               + add(LAUGHTER_END(pt), cfg.w_laughter_end)
               + add(ELLIPSIS_RE(pt), cfg.w_ellipsis_end)
               + add(LongGap(delta_t, cfg), cfg.w_long_gap)
               + add(speaker_changed, cfg.w_speaker_change)
               + add(CONT_EOMI_RE(pt), cfg.w_cont_eomi)
               + add(PARTICLE_END_RE(pt), cfg.w_particle_end)
               + add(NEXT_CONNECTIVE_RE(nt), cfg.w_next_connective)
               + add(is_backchannel(PyStr(nt)).val.b, cfg.w_next_backchannel)
    IN  IF sum < 0 THEN 0 ELSE sum

boundary_score(prev_text, next_text, delta_t, speaker_changed, cfg) ==
    LET pt == IF IsStr(prev_text) THEN Strip(prev_text.s) ELSE <<>>
        nt == IF IsStr(next_text) THEN Strip(next_text.s) ELSE <<>>
        add(cond, w) == IF cond THEN w ELSE 0
    IN    add(END_PUNCT_RE(pt), cfg.w_end_punct)
        + add(END_EOMI_RE(pt), cfg.w_end_eomi)
        + add(LAUGHTER_END(pt), cfg.w_laughter_end)
        + add(ELLIPSIS_RE(pt), cfg.w_ellipsis_end)
        + add(LongGap(delta_t, cfg), cfg.w_long_gap)
        + add(speaker_changed, cfg.w_speaker_change)
        + add(CONT_EOMI_RE(pt), cfg.w_cont_eomi)
        + add(PARTICLE_END_RE(pt), cfg.w_particle_end)
        + add(NEXT_CONNECTIVE_RE(nt), cfg.w_next_connective)
        + add(is_backchannel(PyStr(nt)).val.b, cfg.w_next_backchannel)

(***************************************************************************)
(* Dates.  A date string is <<stamp>>, <<stamp, "Z">> or                   *)
(* <<stamp, "+00:00">> for an ISO stamp of the table below, or anything    *)
(* else (not ISO).  A datetime is its number of seconds after datetime.min *)
(* (0001-01-01T00:00:00) together with its awareness (tzinfo set or not).  *)
(* Only the order and the differences of the seconds matter, so the day    *)
(* 2024-01-01 is placed 1000 s after datetime.min.                         *)
(***************************************************************************)
ClockSeconds ==
    ("0001-01-01T00:00:00" :> 0) @@ ("2024-01-01T00:00:00" :> 1000)
        @@ ("2024-01-01T00:01:00" :> 1060) @@ ("2024-01-01T00:02:01" :> 1121)

\* str.replace('Z', '+00:00')
ReplaceZ(s) == [k \in 1..Len(s) |-> IF s[k] = "Z" THEN "+00:00" ELSE s[k]]

\* datetime.fromisoformat(s): the datetime, or ValueError.
fromisoformat(s) ==
    IF Len(s) = 1 /\ s[1] \in DOMAIN ClockSeconds
        THEN Return(PyDatetime(ClockSeconds[s[1]], FALSE))
    ELSE IF Len(s) = 2 /\ s[1] \in DOMAIN ClockSeconds /\ s[2] = "+00:00"
        THEN Return(PyDatetime(ClockSeconds[s[1]], TRUE))
    ELSE Raise("ValueError")

\* datetime.min: naive, the earliest datetime there is.
DatetimeMin == PyDatetime(0, FALSE)

\* a < b on datetimes: TypeError when exactly one of them is aware.
DatetimeLess(a, b) ==
    IF a.aware # b.aware THEN Raise("TypeError") ELSE Return(a.sec < b.sec)

(***************************************************************************)
(* group_turns (lines 87-126)                                              *)
(***************************************************************************)
\* Lines 92-97: the copy of one item, with its 'datetime' key when the date
\* is a str (None when it does not parse).
ParseCopy(item) ==
    IF item.date # Absent /\ IsStr(item.date)
        THEN LET r == fromisoformat(ReplaceZ(item.date.s))
             IN  [item EXCEPT !.datetime = IF r.exc = "" THEN r.val ELSE None]
        ELSE item

\* Mutant of SortKey: the sentinel is a late datetime instead of datetime.min.
SortKeyLateSentinel(x) ==
    LET d == Get(x.datetime, None)
    IN  IF Truthy(d) THEN d ELSE PyDatetime(100000, FALSE)

\* Line 101: the sort key, x.get('datetime') or datetime.min.
SortKey(x) ==
    LET d == Get(x.datetime, None)
    IN  IF Truthy(d) THEN d ELSE DatetimeMin

\* Mutant of InsertByKey: x goes in front of the elements with an equal key.
RECURSIVE InsertBeforeEqual(_, _)
InsertBeforeEqual(s, x) ==
    IF s = <<>> THEN <<x>>
    ELSE IF ~DatetimeLess(SortKey(s[Len(s)]), SortKey(x)).val
        THEN InsertBeforeEqual(SubSeq(s, 1, Len(s) - 1), x) \o <<s[Len(s)]>>
        ELSE s \o <<x>>

\* Insertion of x into the sorted list s behind every element that is not
\* greater (the order a stable sort gives).
RECURSIVE InsertByKey(_, _)
InsertByKey(s, x) ==
    IF s = <<>> THEN <<x>>
    ELSE IF DatetimeLess(SortKey(x), SortKey(s[Len(s)])).val
        THEN InsertByKey(SubSeq(s, 1, Len(s) - 1), x) \o <<s[Len(s)]>>
        ELSE s \o <<x>>

RECURSIVE StableSort(_)
StableSort(s) ==
    IF s = <<>> THEN <<>>
    ELSE InsertByKey(StableSort(SubSeq(s, 1, Len(s) - 1)), s[Len(s)])

\* Mutant of SortedByTime: the list is left in the caller's order.
NotSorted(s) == Return(s)

\* Line 101: sorted(data_copy, key=...).  The comparisons of a sort connect
\* all the elements, so a list that holds an aware and a naive key raises.
SortedByTime(s) ==
    IF \E i, j \in 1..Len(s) : SortKey(s[i]).aware # SortKey(s[j]).aware
        THEN Raise("TypeError")
        ELSE Return(StableSort(s))

\* Lines 111-121: cur_turn for the item of speaker spk and timestamp ts.
NextTurnId(cur_turn, prev_speaker, prev_ts, spk, ts, cfg) ==
    LET same_speaker == spk = prev_speaker
        gap_ok == IF Truthy(ts) /\ Truthy(prev_ts)
                      THEN ts.sec - prev_ts.sec <= cfg.t_merge_seconds
                      ELSE FALSE
    IN  IF prev_speaker = None THEN 0
        ELSE IF ~(same_speaker /\ gap_ok) THEN cur_turn + 1
        ELSE cur_turn

\* Lines 107-124: the walk over the sorted list from item k on, with the
\* loop variables cur_turn, prev_speaker and prev_ts.
RECURSIVE WalkTurns(_, _, _, _, _, _)
WalkTurns(items, k, cur_turn, prev_speaker, prev_ts, cfg) ==
    IF k > Len(items) THEN <<>>
    ELSE
        LET item == items[k]
            spk == Get(item.user, PyStr(<<>>))
            ts == Get(item.datetime, None)
            turn == NextTurnId(cur_turn, prev_speaker, prev_ts, spk, ts, cfg)
        IN  <<[item EXCEPT !.turn_id = PyInt(turn)]>>
                \o WalkTurns(items, k + 1, turn, spk, ts, cfg)

group_turns(data, cfg) ==
    LET data_copy == [k \in 1..Len(data) |-> ParseCopy(data[k])]
        sorted == SortedByTime(data_copy)
    IN  IF sorted.exc # "" THEN sorted
        ELSE Return(WalkTurns(sorted.val, 1, -1, None, None, cfg))

(***************************************************************************)
(* merge_within_turn (lines 165-205).  messages is the list of (ts, text)  *)
(* tuples of one turn.  Next to the strings of `out` and `buf` the fold    *)
(* records which messages each of them was built from (`parts`, positions  *)
(* in messages): a history the code does not keep.                         *)
(***************************************************************************)
\* Mutant of Cuts: the test is > instead of >=.
CutsAbove(score, cfg) == score > cfg.theta

\* Line 186: if s >= cfg.theta
Cuts(score, cfg) == score >= cfg.theta

\* Mutant of Separator: always ", ".
SeparatorAlwaysComma(buf, next_text) == <<",", " ">>

\* Mutant of Separator: the second test is an elif, so the space wins.
SeparatorSpaceFirst(buf, next_text) ==
    IF \/ \E c \in {".", "?", "!", "ELLIPSIS"} : EndsWith(buf, <<c>>)
       \/ EndsWith(buf, <<"'">>)
        THEN <<" ">>
        ELSE IF \E c \in {",", ".", "?", "!", "ELLIPSIS"} : StartsWith(next_text, <<c>>)
            THEN <<>>
            ELSE <<",", " ">>

\* Lines 193-197: the separator of a merge.
Separator(buf, next_text) ==
    LET sep1 == IF \/ \E c \in {".", "?", "!", "ELLIPSIS"} : EndsWith(buf, <<c>>)
                   \/ EndsWith(buf, <<"'">>)
                    THEN <<" ">>
                    ELSE <<",", " ">>
    IN  IF \E c \in {",", ".", "?", "!", "ELLIPSIS"} : StartsWith(next_text, <<c>>)
            THEN <<>>
            ELSE sep1

\* Mutant of PrevTextArg: the last word of the buffer.
PrevTextLastWord(buf) == Last(Split(buf))

\* Line 179: buf.split()[-1] and buf or "" (the caller has checked that
\* buf.split() is not empty: on an empty list the subscript raises).
PrevTextArg(buf) == IF Last(Split(buf)) # <<>> THEN buf ELSE <<>>

\* Mutant of SpeakerChangedArg: the argument is True.
SpeakerChangedArgTrue == TRUE

\* Line 184: the speaker_changed argument of the boundary_score call.
SpeakerChangedArg == FALSE

\* Mutant of NextPrevTs: prev_ts moves only when the buffer restarts.
NextPrevTsOnCut(prev_ts, cur_ts, cut) == IF cut THEN cur_ts ELSE prev_ts

\* Line 200: prev_ts = cur_ts, after the cut and after the merge alike.
NextPrevTs(prev_ts, cur_ts, cut) == cur_ts

\* Mutant of EmitGuard: the buffer is emitted unconditionally.
EmitGuardAlways(buf) == TRUE

\* Lines 188 and 202: `if buf:`, the buffer is not the empty string.
EmitGuard(buf) == buf # <<>>

\* Mutant of Emitted: the buffer is emitted as it is.
EmittedRaw(buf) == buf

\* Lines 189 and 203: the sentence appended to out, buf.strip().
Emitted(buf) == Strip(buf)

\* Line 182: (cur_ts - prev_ts).total_seconds() if (cur_ts and prev_ts) else None
DeltaT(cur_ts, prev_ts) ==
    IF Truthy(cur_ts) /\ Truthy(prev_ts)
        THEN IF cur_ts.aware # prev_ts.aware
                 THEN Raise("TypeError")
                 ELSE Return(PyInt(cur_ts.sec - prev_ts.sec))
        ELSE Return(None)

\* Mutant of Emit: the sentence replaces what out held.
EmitReplacing(out, buf, parts) ==
    IF EmitGuard(buf) THEN <<[text |-> Emitted(buf), parts |-> parts]>>
    ELSE out

\* Lines 188-189 and 202-203: the buffer is emitted when it is not empty.
Emit(out, buf, parts) ==
    IF EmitGuard(buf) THEN Append(out, [text |-> Emitted(buf), parts |-> parts])
    ELSE out

\* Lines 177-203: the loop from messages[i] on (i counts from 1 here, so the
\* code's messages[i] is messages[i + 1]), then the final emission.
RECURSIVE MergeLoop(_, _, _, _, _, _, _)
MergeLoop(messages, i, out, buf, parts, prev_ts, cfg) ==
    IF i > Len(messages) THEN Return(Emit(out, buf, parts))
    ELSE
        LET cur_ts == messages[i][1]
            cur_text == messages[i][2]
        IN  IF Split(buf) = <<>> THEN Raise("IndexError")
            ELSE IF ~IsStr(cur_text) THEN Raise("AttributeError")
            ELSE
                LET prev_text == PrevTextArg(buf)
                    next_text == Strip(cur_text.s)
                    delta_t == DeltaT(cur_ts, prev_ts)
                IN  IF delta_t.exc # "" THEN delta_t
                    ELSE IF Cuts(boundary_score(PyStr(prev_text), PyStr(next_text),
                                                delta_t.val, SpeakerChangedArg,
                                                cfg), cfg)
                        THEN MergeLoop(messages, i + 1, Emit(out, buf, parts),
                                       next_text, <<i>>,
                                       NextPrevTs(prev_ts, cur_ts, TRUE), cfg)
                        ELSE MergeLoop(messages, i + 1, out,
                                       buf \o Separator(buf, next_text) \o next_text,
                                       Append(parts, i),
                                       NextPrevTs(prev_ts, cur_ts, FALSE), cfg)

\* The sentences of a turn with their parts, or the exception raised.
MergeTrace(messages, cfg) ==
    IF messages = <<>> THEN Return(<<>>)
    ELSE
        LET first == messages[1][2]
        IN  IF Truthy(first) /\ ~IsStr(first) THEN Raise("AttributeError")
            ELSE MergeLoop(messages, 2, <<>>,
                           IF Truthy(first) THEN Strip(first.s) ELSE <<>>,
                           <<1>>, messages[1][1], cfg)

\* merge_within_turn(messages, cfg): the list of merged sentences (str).
merge_within_turn(messages, cfg) ==
    LET r == MergeTrace(messages, cfg)
    IN  IF r.exc # "" THEN r
        ELSE Return([k \in 1..Len(r.val) |-> PyStr(r.val[k].text)])

(***************************************************************************)
(* sbd_merge_messages (lines 208-244)                                      *)
(***************************************************************************)
\* A dict with the keys date, user and message only (an input record with
\* all three keys, and the base_item of lines 237-241).
Msg(date, user, message) ==
    [date |-> date, user |-> user, message |-> message,
     is_backchannel |-> Absent, datetime |-> Absent, turn_id |-> Absent]

\* Line 214: cfg or SBDConfig()
ConfigOrDefault(cfg) == IF cfg = None THEN SBDConfig ELSE cfg

\* Mutant of CallerItem: the callee annotated the caller's dict itself.
CallerItemAliased(item, annotated) == annotated

\* Line 219: new_item = item.copy(); the caller's dict is what it was,
\* whatever sbd_merge_messages writes into the copy.
CallerItem(item, annotated) == item

\* Lines 219-221: the copy of one item with its is_backchannel tag.
TagCopy(item) ==
    IF item.message # Absent
        THEN LET r == is_backchannel(item.message)
             IN  IF r.exc # "" THEN r
                 ELSE Return([item EXCEPT !.is_backchannel = r.val])
        ELSE Return(item)

\* Lines 217-222: the tagged copy of the list; the first exception wins.
TagAll(data) ==
    IF \E k \in 1..Len(data) : TagCopy(data[k]).exc # ""
        THEN TagCopy(data[CHOOSE k \in 1..Len(data) :
                              /\ TagCopy(data[k]).exc # ""
                              /\ \A j \in 1..(k - 1) : TagCopy(data[j]).exc = ""])
        ELSE Return([k \in 1..Len(data) |-> TagCopy(data[k]).val])

\* Line 229: max(item.get('turn_id', 0) for item in data_copy)
MaxTurnId(data_copy) ==
    IF data_copy = <<>> THEN Raise("ValueError")
    ELSE LET ids == {Get(data_copy[k].turn_id, PyInt(0)).i : k \in 1..Len(data_copy)}
         IN  Return(CHOOSE m \in ids : \A n \in ids : n <= m)

\* Line 230: the positions in data_copy of the items of one turn, ascending.
TurnIndices(data_copy, turn_id) ==
    SelectSeq([k \in 1..Len(data_copy) |-> k],
              LAMBDA k : Get(data_copy[k].turn_id, None) = PyInt(turn_id))

\* Line 232: seq, the (datetime, message) tuples of the turn.
TurnSeq(turn_messages) ==
    [j \in 1..Len(turn_messages) |->
        <<Get(turn_messages[j].datetime, None),
          Get(turn_messages[j].message, PyStr(<<>>))>>]

\* Mutant of BaseItem: the row is built from the last message of the turn.
BaseItemOfLast(turn_messages, merged_text) ==
    Msg(Get(turn_messages[Len(turn_messages)].date, PyStr(<<>>)),
        Get(turn_messages[Len(turn_messages)].user, PyStr(<<>>)),
        merged_text)

\* Mutant of BaseItem: the row is a copy of the first message of the turn
\* with its message replaced.
BaseItemCopyFirst(turn_messages, merged_text) ==
    [turn_messages[1] EXCEPT !.message = merged_text]

\* Lines 237-241: the row of one merged text of a turn.
BaseItem(turn_messages, merged_text) ==
    Msg(Get(turn_messages[1].date, PyStr(<<>>)),
        Get(turn_messages[1].user, PyStr(<<>>)),
        merged_text)

\* Lines 230-242: the rows one turn_id adds to merged_rows.
TurnRows(data_copy, turn_id, cfg) ==
    LET idx == TurnIndices(data_copy, turn_id)
        turn_messages == [j \in 1..Len(idx) |-> data_copy[idx[j]]]
        merged_texts == merge_within_turn(TurnSeq(turn_messages), cfg)
    IN  IF turn_messages = <<>> THEN Return(<<>>)
        ELSE IF merged_texts.exc # "" THEN merged_texts
        ELSE Return([j \in 1..Len(merged_texts.val) |->
                        BaseItem(turn_messages, merged_texts.val[j])])

\* History: for each row of TurnRows, the positions in data_copy of the
\* messages its text was built from.
TurnParts(data_copy, turn_id, cfg) ==
    LET idx == TurnIndices(data_copy, turn_id)
        turn_messages == [j \in 1..Len(idx) |-> data_copy[idx[j]]]
        trace == MergeTrace(TurnSeq(turn_messages), cfg)
    IN  IF turn_messages = <<>> \/ trace.exc # "" THEN <<>>
        ELSE [j \in 1..Len(trace.val) |->
                 [p \in 1..Len(trace.val[j].parts) |-> idx[trace.val[j].parts[p]]]]

\* Lines 229-242: the loop over range(max + 1) from turn_id on.
RECURSIVE MergeTurnsFrom(_, _, _, _, _)
MergeTurnsFrom(data_copy, turn_id, max_turn, merged_rows, cfg) ==
    IF turn_id > max_turn THEN Return(merged_rows)
    ELSE LET rows == TurnRows(data_copy, turn_id, cfg)
         IN  IF rows.exc # "" THEN rows
             ELSE MergeTurnsFrom(data_copy, turn_id + 1, max_turn,
                                 merged_rows \o rows.val, cfg)

sbd_merge_messages(data, cfg0) ==
    LET cfg == ConfigOrDefault(cfg0)
        tagged == TagAll(data)
        grouped == group_turns(tagged.val, cfg)
        max_turn == MaxTurnId(grouped.val)
    IN  IF tagged.exc # "" THEN tagged
        ELSE IF grouped.exc # "" THEN grouped
        ELSE IF max_turn.exc # "" THEN max_turn
        ELSE MergeTurnsFrom(grouped.val, 0, max_turn.val, <<>>, cfg)

(***************************************************************************)
(* process_sbd_merge (lines 247-273)                                       *)
(***************************************************************************)
\* Mutant of Catches: `except (ValueError, IndexError)`.
CatchesLookupAndValue(e) == e \in {"ValueError", "IndexError"}

\* Mutant of Catches: `except (AttributeError, TypeError, IndexError)`.
CatchesNoValueError(e) == e \in {"AttributeError", "TypeError", "IndexError"}

\* Line 270: `except Exception` catches every exception class of the model.
Catches(e) == e \in {"AttributeError", "TypeError", "ValueError", "IndexError"}

\* Mutant of HandlerReturn: the handler returns the rows merged so far.
HandlerReturnsRows(original, rows) == rows

\* Line 273: the handler's `return data`, of the caller's list and the rows
\* sbd_merge_messages had merged when it raised.
HandlerReturn(original, rows) == original

process_sbd_merge(data, config) ==
    LET merged_data == sbd_merge_messages(data, config)
    IN  IF merged_data.exc = "" THEN merged_data
        ELSE IF Catches(merged_data.exc) THEN Return(HandlerReturn(data, <<>>))
        ELSE merged_data

(***************************************************************************)
(* Inputs                                                                  *)
(***************************************************************************)
\* Longest input list of a process_sbd_merge run.
MaxLen == 3
\* Longest input list of a direct group_turns call.
MaxTurnLen == 3

SeqsUpTo(S, n) == UNION {[1..k -> S] : k \in 0..n}

D_bad == PyStr(<<"garbage">>)
D_min == PyStr(<<"0001-01-01T00:00:00">>)
D_t0 == PyStr(<<"2024-01-01T00:00:00">>)
D_t60 == PyStr(<<"2024-01-01T00:01:00">>)
D_t121 == PyStr(<<"2024-01-01T00:02:01">>)
D_t0Z == PyStr(<<"2024-01-01T00:00:00", "Z">>)

U_a == PyStr(<<"a">>)
U_b == PyStr(<<"b">>)
U_empty == PyStr(<<>>)

\* "안", "안.", "" and a message that is no str
M_an == PyStr(<<"an">>)
M_anDot == PyStr(<<"an", ".">>)
M_empty == PyStr(<<>>)
M_int == PyInt(5)

\* The records of group_turns' inputs: every kind of user at two dates, one
\* of them datetime.min, and messages of fewer users at the other dates.
TurnRecords ==
    {Msg(d, u, M_an) : d \in {D_min, D_t0}, u \in {Absent, None, U_empty, U_a}}
    \cup {Msg(d, u, M_an) : d \in {D_bad, D_t60}, u \in {None, U_a}}
    \cup {Msg(d, U_a, M_an) : d \in {D_t121, D_t0Z}}

\* The records of process_sbd_merge's inputs: one speaker's messages of
\* every kind at one time, two of them a minute later, plain messages of
\* other speakers and other dates, and a dict without any of the keys.
PipelineRecords ==
    {Msg(D_t0, U_a, m) : m \in {M_an, M_anDot, M_empty, M_int, None}}
    \cup {Msg(D_t60, U_a, m) : m \in {M_an, M_empty}}
    \cup {Msg(D_t0, None, M_an), Msg(D_t60, U_b, M_an)}
    \cup {Msg(d, U_a, M_an) : d \in {D_bad, D_t121, D_t0Z}}
    \cup {Msg(Absent, Absent, Absent)}

\* The config argument: None (the defaults) or a config of the caller's.
Configs == {None, [SBDConfig EXCEPT !.theta = 3]}

\* Longest generic turn of a direct merge_within_turn call.
MaxMergeLen == 3

\* The naive datetime sec seconds after 2024-01-01T00:00:00.
Ts(sec) == PyDatetime(ClockSeconds["2024-01-01T00:00:00"] + sec, FALSE)

\* "안녕", "밥 먹었어", "?"
T_annyeong == PyStr(<<"an", "nyeong">>)
T_bap_meogeosseo == PyStr(<<"bap", " ", "meok", "eot", "eo">>)
T_q == PyStr(<<"?">>)
\* "오늘 집에 갔어.", "근데 비가 왔어"
T_oneul_jibe_gasseo == PyStr(<<"o", "neul", " ", "jip", "e", " ", "gass", "eo", ".">>)
T_geunde_biga_wasseo == PyStr(<<"geun", "de", " ", "bi", "ga", " ", "wat", "eo">>)
\* "나 숙제 다 했어", "오", "잘했네"
T_na_sukje_da_haesseo ==
    PyStr(<<"na", " ", "suk", "je", " ", "da", " ", "haet", "eo">>)
T_o == PyStr(<<"o">>)
T_jalhaenne == PyStr(<<"jal", "haet", "ne">>)
\* "밥 먹고"
T_bap_meokgo == PyStr(<<"bap", " ", "meok", "go">>)

\* "안.." with three dots, "안~~", "안…"
T_anDots == PyStr(<<"an", ".", ".", ".">>)
T_anTildes == PyStr(<<"an", "~", "~">>)
T_anEllipsis == PyStr(<<"an", "ELLIPSIS">>)
\* " 안 ", " 안. " and " "
T_anPadded == PyStr(<<" ", "an", " ">>)
T_anDotPadded == PyStr(<<" ", "an", ".", " ">>)
T_blank == PyStr(<<" ">>)

\* The turns of the worked examples: (seconds, text) per message.
Turn_greeting ==
    <<<<Ts(0), T_annyeong>>, <<Ts(5), T_bap_meogeosseo>>, <<Ts(8), T_q>>>>
Turn_strong_punct ==
    <<<<Ts(0), T_oneul_jibe_gasseo>>, <<Ts(3), T_geunde_biga_wasseo>>>>
Turn_backchannel ==
    <<<<Ts(0), T_na_sukje_da_haesseo>>, <<Ts(2), T_o>>, <<Ts(4), T_jalhaenne>>>>
Turn_long_gap ==
    <<<<Ts(0), T_bap_meokgo>>, <<Ts(40), T_annyeong>>>>
\* Turns whose next text begins with punctuation after a buffer that ends
\* with an ellipsis or a period.
Turn_ellipsis_question == <<<<Ts(0), T_anEllipsis>>, <<Ts(1), T_q>>>>
Turn_period_question == <<<<Ts(0), M_anDot>>, <<Ts(1), T_q>>>>
\* Turns with texts padded with whitespace, or of whitespace only.
Turn_padded ==
    <<<<Ts(0), T_anPadded>>, <<Ts(1), M_empty>>, <<Ts(2), T_anDotPadded>>>>
Turn_blank_first == <<<<Ts(0), T_blank>>, <<Ts(1), M_an>>>>
Turn_blank_last == <<<<Ts(0), M_anDot>>, <<Ts(1), T_blank>>>>
ExampleTurns ==
    {Turn_greeting, Turn_strong_punct, Turn_backchannel, Turn_long_gap,
     Turn_ellipsis_question, Turn_period_question, Turn_padded,
     Turn_blank_first, Turn_blank_last}

\* The (ts, text) tuples of the generic turns: five kinds of text at two
\* times 26 s apart, and a message without a timestamp.
MergeTuples ==
    {<<Ts(t), m>> : t \in {0, 26}, m \in {M_an, M_anDot, T_o, M_empty, None}}
    \cup {<<None, M_an>>}

\* The timestamps of the turn never decrease (the turn is time-sorted).
TimeSorted(msgs) ==
    \A a, b \in 1..Len(msgs) :
        a < b /\ msgs[a][1] # None /\ msgs[b][1] # None
            => msgs[a][1].sec <= msgs[b][1].sec

\* The turns merge_within_turn is called with.
MergeTurns ==
    ExampleTurns \cup {m \in SeqsUpTo(MergeTuples, MaxMergeLen) : TimeSorted(m)}

\* The cfg of a direct merge_within_turn call.
MergeConfigs == {SBDConfig, [SBDConfig EXCEPT !.theta = 3]}

\* "안다", "보다", "ㅋㅋ", "하고", "다가", "안에"
T_anda == PyStr(<<"an", "da">>)
T_boda == PyStr(<<"bo", "da">>)
T_kk == PyStr(<<"k_", "k_">>)
T_hago == PyStr(<<"ha", "go">>)
T_daga == PyStr(<<"da", "ga">>)
T_ane == PyStr(<<"an", "e">>)
\* "근데", "근데요", "또 안"
T_geunde == PyStr(<<"geun", "de">>)
T_geundeyo == PyStr(<<"geun", "de", "yo">>)
T_tto_an == PyStr(<<"tto", " ", "an">>)

\* The prev_text arguments of a direct boundary_score call.
PrevTexts ==
    {M_an, M_anDot, T_anDots, T_anTildes, T_anEllipsis, T_anda, T_boda, T_kk,
     T_bap_meokgo, T_hago, T_daga, T_ane, M_empty, None}

\* The next_text arguments of a direct boundary_score call.
NextTexts ==
    {M_an, T_geunde_biga_wasseo, T_geunde, T_geundeyo, T_tto_an, T_o, T_kk,
     M_empty, None}

\* The delta_t arguments: None and the seconds around t_gap_seconds.
DeltaTs == {None} \cup {PyInt(d) : d \in {0, 24, 25, 26, 40}}

\* The cfg arguments of a direct boundary_score call: the defaults, weights
\* that are distinct powers of two, and the same weights negated.
PowersConfig ==
    [t_merge_seconds |-> 60, t_gap_seconds |-> 25,
     w_end_punct |-> 1, w_end_eomi |-> 2, w_laughter_end |-> 4,
     w_ellipsis_end |-> 8, w_long_gap |-> 16, w_speaker_change |-> 32,
     w_cont_eomi |-> 64, w_particle_end |-> 128, w_next_connective |-> 256,
     w_next_backchannel |-> 512, theta |-> 2]
NegatedConfig ==
    [t_merge_seconds |-> 60, t_gap_seconds |-> 25,
     w_end_punct |-> -1, w_end_eomi |-> -2, w_laughter_end |-> -4,
     w_ellipsis_end |-> -8, w_long_gap |-> -16, w_speaker_change |-> -32,
     w_cont_eomi |-> -64, w_particle_end |-> -128, w_next_connective |-> -256,
     w_next_backchannel |-> -512, theta |-> 2]
ScoreConfigs == {SBDConfig, PowersConfig, NegatedConfig}

(***************************************************************************)
(* The state: one call of process_sbd_merge (or of group_turns) with its   *)
(* arguments, its position and its local variables.                        *)
(***************************************************************************)
VARIABLES
    data,         \* the caller's list
    config,       \* the caller's config argument
    pc,           \* the position of the call
    data_copy,    \* sbd_merge_messages: data_copy
    max_turn,     \* sbd_merge_messages: the bound of range() at line 229
    turn_id,      \* sbd_merge_messages: the loop variable of line 229
    merged_rows,  \* sbd_merge_messages: merged_rows
    exc,          \* the exception in flight, "" when there is none
    result,       \* the value returned to the caller, None before the return
    row_turn,     \* history: the turn_id that produced each row of merged_rows
    row_parts,    \* history: the positions in data_copy each row was built from
    messages,     \* merge_within_turn: the (ts, text) tuples of the turn
    i,            \* merge_within_turn: the loop variable of line 177
    out,          \* merge_within_turn: out
    buf,          \* merge_within_turn: buf
    prev_ts,      \* merge_within_turn: prev_ts
    prev_text,    \* boundary_score: prev_text
    next_text,    \* boundary_score: next_text
    delta_t,      \* boundary_score: delta_t
    speaker_changed, \* boundary_score: speaker_changed
    s,            \* the score boundary_score returned, None before the call
    steps         \* history: what each iteration of line 177 decided

\* The variables of a merge_within_turn or boundary_score call.
mvars == <<messages, i, out, buf, prev_ts, prev_text, next_text, delta_t,
           speaker_changed, s, steps>>

vars == <<data, config, pc, data_copy, max_turn, turn_id, merged_rows, exc,
          result, row_turn, row_parts, mvars>>

\* No merge_within_turn or boundary_score call is in the state.
MergeLocals0 ==
    /\ messages = <<>>
    /\ i = 0
    /\ out = <<>>
    /\ buf = <<>>
    /\ prev_ts = None
    /\ prev_text = None
    /\ next_text = None
    /\ delta_t = None
    /\ speaker_changed = FALSE
    /\ s = None
    /\ steps = <<>>

Locals0 ==
    /\ data_copy = <<>>
    /\ max_turn = -1
    /\ turn_id = 0
    /\ merged_rows = <<>>
    /\ exc = ""
    /\ result = None
    /\ row_turn = <<>>
    /\ row_parts = <<>>

\* A caller is about to run process_sbd_merge(data, config).
Init ==
    /\ data \in SeqsUpTo(PipelineRecords, MaxLen)
    /\ config \in Configs
    /\ pc = "start"
    /\ Locals0
    /\ MergeLocals0

\* Lines 214-222: the config default and the tagged copy.
TagBackchannel ==
    /\ pc = "start"
    /\ LET r == TagAll(data)
       IN  IF r.exc # ""
               THEN /\ exc' = r.exc
                    /\ pc' = "except"
                    /\ UNCHANGED <<data, data_copy>>
               ELSE /\ data_copy' = r.val
                    /\ data' = [k \in 1..Len(data) |-> CallerItem(data[k], r.val[k])]
                    /\ pc' = "group"
                    /\ UNCHANGED exc
    /\ UNCHANGED <<config, max_turn, turn_id, merged_rows, result,
                   row_turn, row_parts, mvars>>

\* Line 225: data_copy = group_turns(data_copy, cfg)
GroupTurns ==
    /\ pc = "group"
    /\ LET r == group_turns(data_copy, ConfigOrDefault(config))
       IN  IF r.exc # ""
               THEN exc' = r.exc /\ pc' = "except" /\ UNCHANGED data_copy
               ELSE data_copy' = r.val /\ pc' = "range" /\ UNCHANGED exc
    /\ UNCHANGED <<data, config, max_turn, turn_id, merged_rows, result,
                   row_turn, row_parts, mvars>>

\* Lines 228-229: merged_rows = [] and the range of the loop.
RangeTurns ==
    /\ pc = "range"
    /\ LET r == MaxTurnId(data_copy)
       IN  IF r.exc # ""
               THEN exc' = r.exc /\ pc' = "except" /\ UNCHANGED max_turn
               ELSE max_turn' = r.val /\ pc' = "merge" /\ UNCHANGED exc
    /\ turn_id' = 0
    /\ merged_rows' = <<>>
    /\ UNCHANGED <<data, config, data_copy, result, row_turn, row_parts, mvars>>

\* Lines 230-242: one iteration of the loop over the turn ids.
MergeTurn ==
    /\ pc = "merge"
    /\ turn_id <= max_turn
    /\ LET cfg == ConfigOrDefault(config)
           r == TurnRows(data_copy, turn_id, cfg)
       IN  IF r.exc # ""
               THEN /\ exc' = r.exc
                    /\ pc' = "except"
                    /\ UNCHANGED <<turn_id, merged_rows, row_turn, row_parts>>
               ELSE /\ merged_rows' = merged_rows \o r.val
                    /\ row_turn' = row_turn \o [j \in 1..Len(r.val) |-> turn_id]
                    /\ row_parts' = row_parts \o TurnParts(data_copy, turn_id, cfg)
                    /\ turn_id' = turn_id + 1
                    /\ UNCHANGED <<exc, pc>>
    /\ UNCHANGED <<data, config, data_copy, max_turn, result, mvars>>

\* Lines 244 and 265-268: the loop is over; merged_rows is returned.
ReturnMerged ==
    /\ pc = "merge"
    /\ turn_id > max_turn
    /\ result' = merged_rows
    /\ pc' = "done"
    /\ UNCHANGED <<data, config, data_copy, max_turn, turn_id, merged_rows,
                   exc, row_turn, row_parts, mvars>>

\* Lines 270-273: the handler returns the caller's list; an exception the
\* except clause does not catch leaves process_sbd_merge.
HandleException ==
    /\ pc = "except"
    /\ IF Catches(exc)
           THEN result' = HandlerReturn(data, merged_rows) /\ pc' = "fallback"
           ELSE result' = result /\ pc' = "raised"
    /\ UNCHANGED <<data, config, data_copy, max_turn, turn_id, merged_rows,
                   exc, row_turn, row_parts, mvars>>

Next ==
    \/ TagBackchannel
    \/ GroupTurns
    \/ RangeTurns
    \/ MergeTurn
    \/ ReturnMerged
    \/ HandleException

Spec == Init /\ [][Next]_vars

(***************************************************************************)
(* A direct call of group_turns(data, cfg).                                *)
(***************************************************************************)
InitTurns ==
    /\ data \in SeqsUpTo(TurnRecords, MaxTurnLen)
    /\ config \in {SBDConfig}
    /\ pc = "call_group_turns"
    /\ Locals0
    /\ MergeLocals0

CallGroupTurns ==
    /\ pc = "call_group_turns"
    /\ LET r == group_turns(data, config)
       IN  IF r.exc # ""
               THEN exc' = r.exc /\ pc' = "raised" /\ UNCHANGED result
               ELSE result' = r.val /\ pc' = "done" /\ UNCHANGED exc
    /\ UNCHANGED <<data, config, data_copy, max_turn, turn_id, merged_rows,
                   row_turn, row_parts, mvars>>

NextTurns == CallGroupTurns

SpecTurns == InitTurns /\ [][NextTurns]_vars

(***************************************************************************)
(* A direct call of merge_within_turn(messages, cfg), one action per       *)
(* iteration of the loop of line 177.  i is the code's loop variable: the  *)
(* tuple it reads, the code's messages[i], is messages[i + 1] here.        *)
(***************************************************************************)
InitMerge ==
    /\ data = <<>>
    /\ config \in MergeConfigs
    /\ pc = "call_merge_within_turn"
    /\ Locals0
    /\ messages \in MergeTurns
    /\ i = 0
    /\ out = <<>>
    /\ buf = <<>>
    /\ prev_ts = None
    /\ prev_text = None
    /\ next_text = None
    /\ delta_t = None
    /\ speaker_changed = FALSE
    /\ s = None
    /\ steps = <<>>

\* Lines 170-175: the empty turn returns []; otherwise buf and prev_ts are
\* taken from the first message.
MergeStart ==
    /\ pc = "call_merge_within_turn"
    /\ IF messages = <<>>
           THEN /\ result' = <<>>
                /\ pc' = "done"
                /\ UNCHANGED <<exc, i, out, buf, prev_ts>>
           ELSE LET first == messages[1][2]
                IN  IF Truthy(first) /\ ~IsStr(first)
                        THEN /\ exc' = "AttributeError"
                             /\ pc' = "raised"
                             /\ UNCHANGED <<result, i, out, buf, prev_ts>>
                        ELSE /\ out' = <<>>
                             /\ buf' = IF Truthy(first) THEN Strip(first.s) ELSE <<>>
                             /\ prev_ts' = messages[1][1]
                             /\ i' = 1
                             /\ pc' = "loop"
                             /\ UNCHANGED <<result, exc>>
    /\ UNCHANGED <<data, config, data_copy, max_turn, turn_id, merged_rows,
                   row_turn, row_parts, messages, prev_text, next_text,
                   delta_t, speaker_changed, s, steps>>

\* Lines 178-200: one iteration of the loop.
MergeStep ==
    /\ pc = "loop"
    /\ i < Len(messages)
    /\ LET cur_ts == messages[i + 1][1]
           cur_text == messages[i + 1][2]
           dt == DeltaT(cur_ts, prev_ts)
           nt == Strip(cur_text.s)
           pt == PrevTextArg(buf)
           score == boundary_score(PyStr(pt), PyStr(nt), dt.val,
                                   SpeakerChangedArg, config)
           sep == Separator(buf, nt)
           raised == IF Split(buf) = <<>> THEN "IndexError"
                     ELSE IF ~IsStr(cur_text) THEN "AttributeError"
                     ELSE dt.exc
       IN  IF raised # ""
               THEN /\ exc' = raised
                    /\ pc' = "raised"
                    /\ UNCHANGED <<i, out, buf, prev_ts, prev_text, next_text,
                                   delta_t, speaker_changed, s, steps>>
               ELSE /\ prev_text' = PyStr(pt)
                    /\ next_text' = PyStr(nt)
                    /\ delta_t' = dt.val
                    /\ speaker_changed' = SpeakerChangedArg
                    /\ s' = PyInt(score)
                    /\ IF Cuts(score, config)
                           THEN /\ out' = IF EmitGuard(buf)
                                               THEN Append(out, PyStr(Emitted(buf)))
                                               ELSE out
                                /\ buf' = nt
                                /\ steps' = Append(steps, [cut |-> TRUE, sep |-> <<>>])
                           ELSE /\ out' = out
                                /\ buf' = buf \o sep \o nt
                                /\ steps' = Append(steps, [cut |-> FALSE, sep |-> sep])
                    /\ prev_ts' = NextPrevTs(prev_ts, cur_ts, Cuts(score, config))
                    /\ i' = i + 1
                    /\ UNCHANGED <<exc, pc>>
    /\ UNCHANGED <<data, config, data_copy, max_turn, turn_id, merged_rows,
                   result, row_turn, row_parts, messages>>

\* Lines 202-205: the loop is over; the buffer is emitted when it is not
\* empty, and out is returned.
MergeFinish ==
    /\ pc = "loop"
    /\ i >= Len(messages)
    /\ out' = IF EmitGuard(buf) THEN Append(out, PyStr(Emitted(buf))) ELSE out
    /\ result' = out'
    /\ pc' = "done"
    /\ UNCHANGED <<data, config, data_copy, max_turn, turn_id, merged_rows,
                   exc, row_turn, row_parts, messages, i, buf, prev_ts,
                   prev_text, next_text, delta_t, speaker_changed, s, steps>>

NextMerge ==
    \/ MergeStart
    \/ MergeStep
    \/ MergeFinish

SpecMerge == InitMerge /\ [][NextMerge]_vars

(***************************************************************************)
(* A direct call of boundary_score(prev_text, next_text, delta_t,          *)
(* speaker_changed, cfg).                                                  *)
(***************************************************************************)
InitScore ==
    /\ data = <<>>
    /\ config \in ScoreConfigs
    /\ pc = "call_boundary_score"
    /\ Locals0
    /\ messages = <<>>
    /\ i = 0
    /\ out = <<>>
    /\ buf = <<>>
    /\ prev_ts = None
    /\ prev_text \in PrevTexts
    /\ next_text \in NextTexts
    /\ delta_t \in DeltaTs
    /\ speaker_changed \in BOOLEAN
    /\ s = None
    /\ steps = <<>>

CallBoundaryScore ==
    /\ pc = "call_boundary_score"
    /\ s' = PyInt(boundary_score(prev_text, next_text, delta_t,
                                 speaker_changed, config))
    /\ result' = s'
    /\ pc' = "done"
    /\ UNCHANGED <<data, config, data_copy, max_turn, turn_id, merged_rows,
                   exc, row_turn, row_parts, messages, i, out, buf, prev_ts,
                   prev_text, next_text, delta_t, speaker_changed, steps>>

NextScore == CallBoundaryScore

SpecScore == InitScore /\ [][NextScore]_vars

\* A merge_within_turn call run action by action returns what the
\* function merge_within_turn of the pipeline returns.
StepwiseAgrees ==
    /\ pc = "done" => merge_within_turn(messages, config) = Return(result)
    /\ pc = "raised" => merge_within_turn(messages, config).exc = exc

(***************************************************************************)
(* Properties of process_sbd_merge's failure policy                        *)
(***************************************************************************)
Returned == pc \in {"done", "fallback"}

\* C1: whenever a step of the pipeline has raised, the call ends by
\* returning the caller's list: the same records in the same order with the
\* same field values, never the rows merged before the exception.
C1_FallbackReturnsInput ==
    exc # "" => \/ pc = "except"
                \/ pc = "fallback" /\ result = data

\* C1 witness: a fallback after the loop had already merged some turns.
C1_Witness ==
    /\ pc = "fallback"
    /\ merged_rows # <<>>
    /\ merged_rows # data

\* C2: no exception leaves process_sbd_merge: a run is inside the try
\* statement or its handler, or it has returned, and what it has returned is
\* the merged rows or the caller's list.
C2_NeverRaises ==
    /\ pc # "raised"
    /\ Returned \/ pc \in {"start", "group", "range", "merge", "except"}
    /\ pc = "done" => result = merged_rows
    /\ pc = "fallback" => result = data

\* C2 witness: the sort of a list with aware and naive dates raised, and
\* the call returned.
C2_Witness ==
    /\ pc = "fallback"
    /\ exc = "TypeError"
    /\ \E k \in 1..Len(data) : data[k].date = D_t0Z

\* C3: process_sbd_merge([]) returns [] under the default config and under
\* a config of the caller's.
C3_EmptyInput ==
    data = <<>> => /\ pc # "raised"
                   /\ Returned => result = <<>>

\* C3 witness: the call on [] with a config of the caller's has returned
\* (through the handler: max() of no turn ids raises ValueError).
C3_Witness ==
    /\ data = <<>>
    /\ config # None
    /\ Returned
    /\ exc = "ValueError"

(***************************************************************************)
(* Properties of group_turns' output (result, once pc = "done" under       *)
(* SpecTurns)                                                              *)
(***************************************************************************)
\* The speaker of a message: its user, the empty string when it has none.
Speaker(x) == Get(x.user, PyStr(<<>>))
\* The message has a timestamp: its date was a str and parsed.
HasTimestamp(x) == Get(x.datetime, None) # None
\* The seconds from message x to message y, both with a timestamp.
Gap(x, y) == y.datetime.sec - x.datetime.sec
\* Messages k and k + 1 of the sorted list are in different turns.
Boundary(lst, k) == lst[k].turn_id # lst[k + 1].turn_id

\* C4: messages with one turn_id have one user, and two neighbours of the
\* sorted list with one turn_id both have a timestamp and are at most
\* t_merge_seconds apart.
C4_TurnPartition ==
    pc = "done" =>
        /\ \A ii, jj \in 1..Len(result) :
               result[ii].turn_id = result[jj].turn_id
                   => Speaker(result[ii]) = Speaker(result[jj])
        /\ \A k \in 1..(Len(result) - 1) :
               ~Boundary(result, k)
                   => /\ HasTimestamp(result[k])
                      /\ HasTimestamp(result[k + 1])
                      /\ Gap(result[k], result[k + 1]) <= config.t_merge_seconds

\* C5: at every turn boundary the speakers differ or the gap between the
\* two messages exceeds t_merge_seconds; a message without a timestamp
\* counts as a gap beyond every window (an unparseable date forces a
\* boundary).
C5_Boundary ==
    pc = "done" =>
        \A k \in 1..(Len(result) - 1) :
            Boundary(result, k)
                => \/ Speaker(result[k]) # Speaker(result[k + 1])
                   \/ ~HasTimestamp(result[k])
                   \/ ~HasTimestamp(result[k + 1])
                   \/ Gap(result[k], result[k + 1]) > config.t_merge_seconds

\* The input record an output record was copied from.
Original(x) == [x EXCEPT !.datetime = Absent, !.turn_id = Absent]

\* lst holds every record of the list inp, each exactly once.
IsPermutation(lst, inp) ==
    /\ Len(lst) = Len(inp)
    /\ \E p \in [1..Len(inp) -> 1..Len(inp)] :
           /\ \A ii, jj \in 1..Len(inp) : p[ii] = p[jj] => ii = jj
           /\ \A ii \in 1..Len(inp) : Original(lst[ii]) = inp[p[ii]]

C6_OrderPreserved ==
    pc = "done" =>
        /\ \A ii, jj \in 1..Len(row_turn) : ii < jj => row_turn[ii] <= row_turn[jj]
        /\ \A ii \in 1..Len(row_parts) :
               \A p, q \in 1..Len(row_parts[ii]) :
                   p < q => row_parts[ii][p] < row_parts[ii][q]
        /\ \A ii, jj \in 1..Len(row_parts) :
               ii < jj => \A p \in 1..Len(row_parts[ii]), q \in 1..Len(row_parts[jj]) :
                            row_parts[ii][p] < row_parts[jj][q]

\* The position in data_copy of the first message of turn t.
FirstOfTurn(t) ==
    CHOOSE k \in 1..Len(data_copy) :
        /\ data_copy[k].turn_id = PyInt(t)
        /\ \A jj \in 1..(k - 1) : data_copy[jj].turn_id # PyInt(t)

\* A field of a message as a row carries it: the empty string for a key the
\* message does not have.
Carried(v) == IF v = Absent THEN PyStr(<<>>) ELSE v

\* C7: every row produced for a turn carries the date and the user of the
\* first message of that turn in time-sorted order.
C7_RowOfFirstMessage ==
    pc \in {"merge", "done"} =>
        \A ii \in 1..Len(merged_rows) :
            /\ merged_rows[ii].date = Carried(data_copy[FirstOfTurn(row_turn[ii])].date)
            /\ merged_rows[ii].user = Carried(data_copy[FirstOfTurn(row_turn[ii])].user)

\* C7 witness: a row that starts after a cut, built only from messages with
\* a later date than the first message of its turn.
C7_Witness ==
    /\ pc = "done"
    /\ \E ii \in 1..Len(merged_rows) :
           /\ row_parts[ii][1] # FirstOfTurn(row_turn[ii])
           /\ \A p \in 1..Len(row_parts[ii]) :
                  data_copy[row_parts[ii][p]].date
                      # data_copy[FirstOfTurn(row_turn[ii])].date

\* The dict has exactly the keys date, user and message.
ThreeFields(r) ==
    /\ r.date # Absent /\ r.user # Absent /\ r.message # Absent
    /\ r.is_backchannel = Absent /\ r.datetime = Absent /\ r.turn_id = Absent

\* data_copy with every is_backchannel tag negated.
FlipTags(items) ==
    [k \in 1..Len(items) |->
        IF items[k].is_backchannel = Absent THEN items[k]
        ELSE [items[k] EXCEPT !.is_backchannel = PyBool(~items[k].is_backchannel.b)]]

\* The rows of every turn do not depend on the is_backchannel tags.
TagsNotConsulted ==
    pc = "merge" /\ turn_id = 0 =>
        \A t \in 0..max_turn :
            TurnRows(FlipTags(data_copy), t, ConfigOrDefault(config))
                = TurnRows(data_copy, t, ConfigOrDefault(config))

\* C8 as claimed: every record returned has exactly the keys date, user and
\* message, and the stored is_backchannel decides nothing.
C8_ThreeFieldsAsClaimed ==
    /\ Returned => \A ii \in 1..Len(result) : ThreeFields(result[ii])
    /\ TagsNotConsulted

\* C8 amended: every record returned on the merged path has exactly the
\* keys date, user and message; on the fallback path the records are the
\* caller's, with the keys they came with and no annotation added; the
\* stored is_backchannel decides nothing.
C8_ThreeFields ==
    /\ pc = "done" => \A ii \in 1..Len(result) : ThreeFields(result[ii])
    /\ pc = "fallback" =>
           /\ result = data
           /\ \A ii \in 1..Len(result) :
                  /\ result[ii].is_backchannel = Absent
                  /\ result[ii].datetime = Absent
                  /\ result[ii].turn_id = Absent
    /\ TagsNotConsulted

\* C8 witness: rows were returned for messages that had been annotated with
\* is_backchannel, datetime and turn_id, one of them with an unparseable
\* date.
C8_Witness ==
    /\ pc = "done"
    /\ result # <<>>
    /\ \A k \in 1..Len(data_copy) :
           /\ data_copy[k].turn_id # Absent
           /\ data_copy[k].datetime # Absent
           /\ data_copy[k].is_backchannel # Absent
    /\ \E k \in 1..Len(data_copy) : data_copy[k].date = D_bad

(***************************************************************************)
(* The order of the input list                                             *)
(***************************************************************************)
Perms(n) == {p \in [1..n -> 1..n] : \A ii, jj \in 1..n : p[ii] = p[jj] => ii = jj}
Permute(d, p) == [k \in 1..Len(d) |-> d[p[k]]]

\* Every date of the list parses, and no two parse to the same datetime.
ParsedDistinct(d) ==
    /\ \A k \in 1..Len(d) : Get(ParseCopy(d[k]).datetime, None) # None
    /\ \A ii, jj \in 1..Len(d) :
           ii # jj => ParseCopy(d[ii]).datetime # ParseCopy(d[jj]).datetime

\* Two calls end alike: the same exception, or the same value returned.
SameOutcome(a, b) == a.exc = b.exc /\ (a.exc = "" => a.val = b.val)

\* C10 as claimed: for a list of parseable, pairwise distinct timestamps,
\* process_sbd_merge returns the same result for every permutation of it.
C10_OrderIrrelevantAsClaimed ==
    Returned /\ ParsedDistinct(data) =>
        \A p \in Perms(Len(data)) :
            SameOutcome(process_sbd_merge(Permute(data, p), config),
                        Return(result))

\* C10 amended: for a list of parseable, pairwise distinct timestamps,
\* group_turns returns the same list for every permutation of its input,
\* and process_sbd_merge returns the same rows for every permutation when
\* the pipeline does not raise; when it raises, it raises for every
\* permutation, and each call returns its own list in the caller's order.
C10_OrderIrrelevant ==
    ParsedDistinct(data) =>
        \A p \in Perms(Len(data)) :
            /\ pc = "range" =>
                   SameOutcome(group_turns(TagAll(Permute(data, p)).val,
                                           ConfigOrDefault(config)),
                               Return(data_copy))
            /\ pc = "done" =>
                   SameOutcome(process_sbd_merge(Permute(data, p), config),
                               Return(result))
            /\ pc = "fallback" =>
                   /\ result = data
                   /\ sbd_merge_messages(Permute(data, p), config).exc # ""
                   /\ SameOutcome(process_sbd_merge(Permute(data, p), config),
                                  Return(Permute(data, p)))

\* C10 witness: rows were returned for a list that was not in time order.
C10_Witness ==
    /\ pc = "done"
    /\ ParsedDistinct(data)
    /\ Len(data) >= 2
    /\ data[1].date = D_t60
    /\ data[2].date = D_t0
    /\ result # <<>>

(***************************************************************************)
(* The worked examples of merge_within_turn (SpecMerge, default config)    *)
(***************************************************************************)
\* The call of merge_within_turn on turn with the default config.
DefaultCall(turn) == messages = turn /\ config = SBDConfig

\* C11: with the default config the turn "안녕" (0 s), "밥 먹었어" (5 s),
\* "?" (8 s) yields exactly one sentence, "안녕, 밥 먹었어?": the first
\* boundary merges with ", " and the second with the empty separator.
C11_GreetingOneSentence ==
    DefaultCall(Turn_greeting) =>
        /\ pc # "raised"
        /\ pc = "done" =>
               /\ result = <<PyStr(<<"an", "nyeong", ",", " ", "bap", " ", "meok",
                                     "eot", "eo", "?">>)>>
               /\ steps = <<[cut |-> FALSE, sep |-> <<",", " ">>],
                            [cut |-> FALSE, sep |-> <<>>]>>

\* C11 witness: the call on that turn has returned.
C11_Witness == DefaultCall(Turn_greeting) /\ pc = "done"

\* C12 as claimed: with the default config the turn "오늘 집에 갔어." (0 s),
\* "근데 비가 왔어" (3 s) is cut at its boundary and yields the two sentences
\* "오늘 집에 갔어." and "근데 비가 왔어".
C12_StrongPunctCutAsClaimed ==
    DefaultCall(Turn_strong_punct) /\ pc = "done" =>
        /\ steps = <<[cut |-> TRUE, sep |-> <<>>]>>
        /\ result = <<T_oneul_jibe_gasseo, T_geunde_biga_wasseo>>

\* C12 amended: with the default config that turn is merged at its
\* boundary: the score is w_end_punct + w_next_connective = 1 < theta, and
\* the one sentence "오늘 집에 갔어. 근데 비가 왔어" is emitted.
C12_StrongPunctMerged ==
    DefaultCall(Turn_strong_punct) =>
        /\ pc # "raised"
        /\ pc = "done" =>
               /\ s = PyInt(SBDConfig.w_end_punct + SBDConfig.w_next_connective)
               /\ s.i < SBDConfig.theta
               /\ steps = <<[cut |-> FALSE, sep |-> <<" ">>]>>
               /\ result = <<PyStr(T_oneul_jibe_gasseo.s \o <<" ">>
                                       \o T_geunde_biga_wasseo.s)>>

\* C12 witness: the call on that turn has returned.
C12_Witness == DefaultCall(Turn_strong_punct) /\ pc = "done"

\* The score of the last boundary_score call under the same config with
\* w_next_backchannel set to 0.
ScoreWithoutBackchannel ==
    boundary_score(prev_text, next_text, delta_t, speaker_changed,
                   [config EXCEPT !.w_next_backchannel = 0])

\* C13: at every boundary whose next message is a backchannel,
\* w_next_backchannel is added to the score; with the default config the
\* turn "나 숙제 다 했어" (0 s), "오" (2 s), "잘했네" (4 s) is not cut before
\* "오", although the other signals alone reach theta.
C13_BackchannelSuppressesCut ==
    /\ pc \in {"loop", "done"} /\ s # None =>
           s.i = ScoreWithoutBackchannel
                   + (IF is_backchannel(next_text).val.b
                          THEN config.w_next_backchannel ELSE 0)
    /\ DefaultCall(Turn_backchannel) =>
           /\ pc # "raised"
           /\ pc = "loop" /\ i = 2 =>
                  /\ next_text = T_o
                  /\ ScoreWithoutBackchannel >= config.theta
                  /\ s.i < config.theta
                  /\ steps = <<[cut |-> FALSE, sep |-> <<",", " ">>]>>

\* C13 witness: the boundary before "오" has been decided.
C13_Witness == DefaultCall(Turn_backchannel) /\ pc = "loop" /\ i = 2

\* The boundary just scored has a buffer that ends with a continuative eomi
\* and fires no other text signal, and a gap of 40 s.
ContinuativeLongGap ==
    /\ pc \in {"loop", "done"}
    /\ s # None
    /\ CONT_EOMI_RE(prev_text.s)
    /\ ~END_PUNCT_RE(prev_text.s) /\ ~END_EOMI_RE(prev_text.s)
    /\ ~LAUGHTER_END(prev_text.s) /\ ~ELLIPSIS_RE(prev_text.s)
    /\ ~PARTICLE_END_RE(prev_text.s)
    /\ ~NEXT_CONNECTIVE_RE(next_text.s) /\ ~is_backchannel(next_text).val.b
    /\ delta_t = PyInt(40)
    /\ config = SBDConfig

\* C14 as claimed: such a boundary is cut.
C14_LongGapCutsAsClaimed ==
    ContinuativeLongGap => steps[Len(steps)].cut

\* C14 amended: such a boundary is merged: its score is
\* w_cont_eomi + w_long_gap = -1 < theta.
C14_LongGapMerged ==
    /\ ContinuativeLongGap =>
           /\ s = PyInt(SBDConfig.w_cont_eomi + SBDConfig.w_long_gap)
           /\ s.i < SBDConfig.theta
           /\ ~steps[Len(steps)].cut
    /\ DefaultCall(Turn_long_gap) =>
           /\ pc # "raised"
           /\ pc = "done" =>
                  result = <<PyStr(T_bap_meokgo.s \o <<",", " ">> \o T_annyeong.s)>>

\* C14 witness: the turn "밥 먹고" (0 s), "안녕" (40 s) has been merged.
C14_Witness ==
    DefaultCall(Turn_long_gap) /\ pc = "done" /\ ContinuativeLongGap


(***************************************************************************)
(* Properties of group_turns' numbering and order (SpecTurns)              *)
(***************************************************************************)
\* C15: along the sorted output of a non-empty input the first message has
\* turn_id 0 and every later message has the turn_id of the message before
\* it or that value plus one.
C15_TurnIdMonotone ==
    pc = "done" /\ result # <<>> =>
        /\ result[1].turn_id = PyInt(0)
        /\ \A k \in 1..(Len(result) - 1) :
               \/ result[k + 1].turn_id = result[k].turn_id
               \/ result[k + 1].turn_id = PyInt(result[k].turn_id.i + 1)

\* C16: a message without a timestamp shares its turn_id neither with the
\* message before it nor with the message after it in the sorted output.
C16_UnparsedAlone ==
    pc = "done" =>
        \A k \in 1..Len(result) :
            ~HasTimestamp(result[k]) =>
                /\ k > 1 => Boundary(result, k - 1)
                /\ k < Len(result) => Boundary(result, k)

\* The sort key of the input message at position k, in seconds.
KeyOf(k) == SortKey(ParseCopy(data[k])).sec

\* C17: the output is the input in ascending order of the sort key, and two
\* messages with equal keys keep the relative order they had in the input.
C17_StableSort ==
    pc = "done" =>
        \E p \in Perms(Len(data)) :
            /\ \A k \in 1..Len(data) : Original(result[k]) = data[p[k]]
            /\ \A a, b \in 1..Len(data) :
                   a < b => \/ KeyOf(p[a]) < KeyOf(p[b])
                            \/ KeyOf(p[a]) = KeyOf(p[b]) /\ p[a] < p[b]

\* C17 witness: two different messages with equal keys behind a message
\* with a later key in the input.
C17_Witness ==
    /\ pc = "done"
    /\ Len(data) >= 3
    /\ KeyOf(1) > KeyOf(2)
    /\ KeyOf(2) = KeyOf(3)
    /\ data[2] # data[3]


(***************************************************************************)
(* Properties of boundary_score (SpecScore)                                *)
(***************************************************************************)
\* The weights of the ten signals, by the name of their field in the config.
SignalNames ==
    {"w_end_punct", "w_end_eomi", "w_laughter_end", "w_ellipsis_end",
     "w_long_gap", "w_speaker_change", "w_cont_eomi", "w_particle_end",
     "w_next_connective", "w_next_backchannel"}

\* The arguments' texts as the signals see them: stripped, "" for no str.
PrevStripped == IF IsStr(prev_text) THEN Strip(prev_text.s) ELSE <<>>
NextStripped == IF IsStr(next_text) THEN Strip(next_text.s) ELSE <<>>

\* The signal of weight w fires on the arguments of the call.
Fires(w) ==
    CASE w = "w_end_punct" -> END_PUNCT_RE(PrevStripped)
      [] w = "w_end_eomi" -> END_EOMI_RE(PrevStripped)
      [] w = "w_laughter_end" -> LAUGHTER_END(PrevStripped)
      [] w = "w_ellipsis_end" -> ELLIPSIS_RE(PrevStripped)
      [] w = "w_long_gap" -> delta_t # None /\ delta_t.i > config.t_gap_seconds
      [] w = "w_speaker_change" -> speaker_changed
      [] w = "w_cont_eomi" -> CONT_EOMI_RE(PrevStripped)
      [] w = "w_particle_end" -> PARTICLE_END_RE(PrevStripped)
      [] w = "w_next_connective" -> NEXT_CONNECTIVE_RE(NextStripped)
      [] w = "w_next_backchannel" -> is_backchannel(PyStr(NextStripped)).val.b

\* The sum of the weights named in W under the config of the call.
RECURSIVE SumOfWeights(_)
SumOfWeights(W) ==
    IF W = {} THEN 0
    ELSE LET w == CHOOSE x \in W : TRUE
         IN  config[w] + SumOfWeights(W \ {w})

\* C18: the score returned is the sum of the weights of the signals that
\* fire, whatever their number and whatever the sign of the sum.
C18_ScoreIsSum ==
    pc = "done" => s = PyInt(SumOfWeights({w \in SignalNames : Fires(w)}))

\* C18 witness: four or more signals fired and the score is below zero.
C18_Witness ==
    /\ pc = "done"
    /\ Cardinality({w \in SignalNames : Fires(w)}) >= 4
    /\ s.i < 0

\* C19: w_long_gap is part of the score exactly when delta_t is not None
\* and greater than t_gap_seconds: the score exceeds the score of the same
\* call under w_long_gap = 0 by w_long_gap then, and equals it otherwise
\* (delta_t None, or at most t_gap_seconds).
C19_LongGapStrict ==
    pc = "done" =>
        s.i - boundary_score(prev_text, next_text, delta_t, speaker_changed,
                             [config EXCEPT !.w_long_gap = 0])
            = IF delta_t # None /\ delta_t.i > config.t_gap_seconds
                  THEN config.w_long_gap
                  ELSE 0

\* C19 witness: a call with delta_t exactly t_gap_seconds has returned.
C19_Witness ==
    /\ pc = "done"
    /\ delta_t = PyInt(config.t_gap_seconds)

(***************************************************************************)
(* Properties of the iterations of merge_within_turn (SpecMerge)           *)
(***************************************************************************)
\* This step is an iteration of the loop of line 177 that did not raise.
Iteration == pc = "loop" /\ pc' = "loop" /\ i' = i + 1

\* C20: every iteration scores the boundary between the buffer and the next
\* message; when the score is at least theta the buffer is emitted trimmed
\* and the next text becomes the buffer; otherwise nothing is emitted and
\* the next text is appended to the buffer behind a separator.
C20_CutIffScoreReachesTheta ==
    [][Iteration =>
          /\ next_text' = PyStr(Strip(messages[i + 1][2].s))
          /\ s' = PyInt(boundary_score(prev_text', next_text', delta_t',
                                       speaker_changed', config))
          /\ steps'[Len(steps')].cut = (s'.i >= config.theta)
          /\ IF s'.i >= config.theta
                 THEN /\ out' = Append(out, PyStr(Strip(buf)))
                      /\ buf' = next_text'.s
                 ELSE /\ out' = out
                      /\ \E sep \in {<<>>, <<" ">>, <<",", " ">>} :
                             buf' = buf \o sep \o next_text'.s]_vars

\* C20 witness: a boundary whose score was exactly theta has been cut.
C20_Witness ==
    /\ pc = "loop"
    /\ s = PyInt(config.theta)
    /\ steps # <<>>
    /\ steps[Len(steps)].cut
    /\ out # <<>>

(***************************************************************************)
(* Properties of the merge inside a turn (continued)                       *)
(***************************************************************************)
\* The last iteration of the loop completed and merged.
LastStepMerged ==
    /\ pc \in {"loop", "done"}
    /\ steps # <<>>
    /\ ~steps[Len(steps)].cut

EndsStrong(b) ==
    \/ \E c \in {".", "?", "!", "ELLIPSIS"} : EndsWith(b, <<c>>)
    \/ EndsWith(b, <<"'">>)

BeginsPunct(n) ==
    \E c \in {",", ".", "?", "!", "ELLIPSIS"} : StartsWith(n, <<c>>)

\* C21: on a merge the separator is " " if the buffer ends with '.', '?',
\* '!', an ellipsis or a closing quote; otherwise "" if the next text
\* begins with ',', '.', '?', '!' or an ellipsis; otherwise ", ".  When the
\* buffer ends with strong punctuation and the next text begins with
\* punctuation, the separator is " ".
C21_SeparatorPriorityAsClaimed ==
    LastStepMerged =>
        steps[Len(steps)].sep =
            IF EndsStrong(prev_text.s) THEN <<" ">>
            ELSE IF BeginsPunct(next_text.s) THEN <<>>
            ELSE <<",", " ">>

\* C21 (amended): on a merge the separator is "" if the next text begins
\* with ',', '.', '?', '!' or an ellipsis; otherwise " " if the buffer ends
\* with '.', '?', '!', an ellipsis or an apostrophe; otherwise ", ".
C21_NextPunctWins ==
    LastStepMerged =>
        steps[Len(steps)].sep =
            IF BeginsPunct(next_text.s) THEN <<>>
            ELSE IF EndsStrong(prev_text.s) THEN <<" ">>
            ELSE <<",", " ">>

\* C21 witness: a merge of a buffer that ends with strong punctuation and
\* a next text that begins with punctuation; there is no separator.
C21_Witness ==
    /\ LastStepMerged
    /\ EndsStrong(prev_text.s)
    /\ BeginsPunct(next_text.s)
    /\ steps[Len(steps)].sep = <<>>

\* C22: in every iteration of the loop that reaches the boundary_score
\* call, the prev_text argument is the entire buffer accumulated so far,
\* which is never the empty string and not just its last word, and the
\* next_text argument is the text of the next message with the surrounding
\* whitespace removed.
C22_ScoredTexts ==
    [][Iteration =>
          /\ buf # <<>>
          /\ prev_text' = PyStr(buf)
          /\ next_text' = PyStr(Strip(messages[i + 1][2].s))]_vars

\* C22 witness: a call was made with a buffer of several words.
C22_Witness ==
    /\ pc \in {"loop", "done"}
    /\ steps # <<>>
    /\ Len(Split(prev_text.s)) > 1
    /\ Last(Split(prev_text.s)) # prev_text.s

\* The number of iterations so far that cut.
CutCount == Cardinality({k \in 1..Len(steps) : steps[k].cut})

\* The text of the last message of the turn, stripped ("" for None).
LastText ==
    LET m == messages[Len(messages)][2]
    IN  IF IsStr(m) THEN Strip(m.s) ELSE <<>>

\* C23 as claimed: every non-empty turn yields at least one sentence, and
\* the text of its last message is part of the last sentence.
C23_FinalEmitAsClaimed ==
    (pc = "done" /\ messages # <<>>) =>
        /\ result # <<>>
        /\ EndsWith(result[Len(result)].s, LastText)

\* C23 (amended): after the last message the remaining buffer is emitted,
\* trimmed, as the final sentence only if it is not empty.  A buffer that
\* is not empty yields one sentence more than the cuts, the last sentence
\* is the trimmed buffer and ends with the text of the last message; an
\* empty buffer (a turn of one empty message, or a cut to an empty last
\* message) yields no final sentence.
C23_FinalEmit ==
    (pc = "done" /\ messages # <<>>) =>
        /\ result = out
        /\ buf # <<>> =>
              /\ Len(result) = CutCount + 1
              /\ result[Len(result)] = PyStr(Strip(buf))
              /\ EndsWith(result[Len(result)].s, LastText)
        /\ buf = <<>> => Len(result) = CutCount

\* C23 witness: the turn ended on an empty buffer after a cut, and the
\* sentences returned are those of the cuts.
C23_Witness ==
    /\ pc = "done"
    /\ buf = <<>>
    /\ CutCount > 0
    /\ Len(result) = CutCount

\* C24: the elapsed time scored at a boundary is the gap between the two
\* adjacent messages of the turn (None when one of them has no timestamp),
\* not the time since the buffer started: after every iteration, cut or
\* merge, prev_ts is the timestamp of the message just read.
C24_AdjacentGap ==
    (pc \in {"loop", "done"} /\ steps # <<>>) =>
        /\ prev_ts = messages[i][1]
        /\ delta_t = IF messages[i][1] # None /\ messages[i - 1][1] # None
                         THEN PyInt(messages[i][1].sec - messages[i - 1][1].sec)
                         ELSE None

\* C24 witness: a boundary scored after a merge, where the gap to the
\* previous message is shorter than the time since the buffer started.
C24_Witness ==
    /\ pc \in {"loop", "done"}
    /\ Len(steps) >= 2
    /\ ~steps[Len(steps) - 1].cut
    /\ delta_t # None
    /\ messages[i - 2][1] # None
    /\ delta_t.i < messages[i][1].sec - messages[i - 2][1].sec

\* A well-formed turn: not empty, every message has a timestamp and a str
\* text, and the timestamps never decrease.
WellFormedTurn ==
    /\ messages # <<>>
    /\ \A k \in 1..Len(messages) : messages[k][1] # None /\ IsStr(messages[k][2])
    /\ TimeSorted(messages)

\* C25: merge_within_turn does not raise for a well-formed turn, turns of
\* two or more messages with an empty or whitespace-only text included.
C25_WellFormedNeverRaises ==
    WellFormedTurn => pc # "raised"

\* C25, where it holds: a well-formed turn raises only if one of its
\* messages but the last has an empty or whitespace-only text.
C25_RaisesOnlyOnBlank ==
    (WellFormedTurn /\ pc = "raised") =>
        /\ exc = "IndexError"
        /\ \E k \in 1..(Len(messages) - 1) : Strip(messages[k][2].s) = <<>>

(***************************************************************************)
(* Properties of the pipeline (continued)                                  *)
(***************************************************************************)
\* Values of w_speaker_change other than the default: no weight, and a
\* weight that alone reaches theta.
OtherSpeakerWeights == {0, 5}

\* The caller's config with another w_speaker_change.
WithSpeakerWeight(cfg, w) ==
    [ConfigOrDefault(cfg) EXCEPT !.w_speaker_change = w]

\* C26: every boundary_score call of process_sbd_merge passes
\* speaker_changed = False, so w_speaker_change is never added: a run on
\* the same input with a config that differs only in w_speaker_change
\* returns the same output.
C26_SpeakerWeightDead ==
    Returned =>
        \A w \in OtherSpeakerWeights :
            process_sbd_merge(data, WithSpeakerWeight(config, w)) = Return(result)

\* C26 witness: a run that merged two messages at a boundary which a
\* w_speaker_change of 5, had it been added, would have cut.
C26_Witness ==
    /\ pc = "done"
    /\ config = None
    /\ \E k \in 1..Len(row_parts) : Len(row_parts[k]) >= 2

\* C27: process_sbd_merge never modifies its input, on the success path
\* and on the fallback path alike: no step of a run changes the caller's
\* list, its length, its order or a key of one of its records.
C27_InputUntouched ==
    [][data' = data]_vars

\* C27 witness: the call fell back after its copies had been tagged and
\* given a datetime and a turn_id; the caller's records have none of them.
C27_Witness ==
    /\ pc = "fallback"
    /\ data_copy # <<>>
    /\ \A k \in 1..Len(data_copy) :
           /\ data_copy[k].turn_id # Absent
           /\ data_copy[k].datetime # Absent
    /\ \A k \in 1..Len(data) :
           /\ data[k].turn_id = Absent
           /\ data[k].datetime = Absent
           /\ data[k].is_backchannel = Absent

\* The number of times position k of data_copy occurs in the parts of the
\* rows.
Occurrences(k) ==
    Cardinality({<<ii, p>> \in (1..Len(row_parts)) \X (1..Len(data_copy)) :
                    p <= Len(row_parts[ii]) /\ row_parts[ii][p] = k})

\* The message of position k is a str with something but whitespace in it.
NonBlank(k) ==
    /\ IsStr(Get(data_copy[k].message, PyStr(<<>>)))
    /\ Strip(Get(data_copy[k].message, PyStr(<<>>)).s) # <<>>

\* Row ii is built from consecutive messages of the turn that produced it.
ContiguousInTurn(ii) ==
    LET idx == TurnIndices(data_copy, row_turn[ii])
    IN  \E a \in 1..Len(idx) :
            /\ a + Len(row_parts[ii]) - 1 <= Len(idx)
            /\ row_parts[ii] = SubSeq(idx, a, a + Len(row_parts[ii]) - 1)

\* The stripped text of every constituent of row ii occurs in the text of
\* the row.
Infix(x, y) ==
    \E a \in 1..(Len(y) - Len(x) + 1) : SubSeq(y, a, a + Len(x) - 1) = x

TextKept(ii) ==
    \A p \in 1..Len(row_parts[ii]) :
        LET m == Get(data_copy[row_parts[ii][p]].message, PyStr(<<>>))
        IN  IsStr(m) => Infix(Strip(m.s), merged_rows[ii].message.s)

RowsOfTurn(w) == {ii \in 1..Len(row_turn) : row_turn[ii] = w}

\* The boundaries of turn w at which the buffer restarted: the messages
\* of the turn but the first that open a row.
CutsOfTurn(w) ==
    LET idx == TurnIndices(data_copy, w)
    IN  {a \in 2..Len(idx) : \E ii \in RowsOfTurn(w) : row_parts[ii][1] = idx[a]}

\* Every turn without a blank message has one sentence more than cuts, and
\* no more sentences than messages.
SentencesOfTurns ==
    \A w \in 0..max_turn :
        LET idx == TurnIndices(data_copy, w)
        IN  (idx # <<>> /\ \A a \in 1..Len(idx) : NonBlank(idx[a])) =>
                /\ Cardinality(RowsOfTurn(w)) = 1 + Cardinality(CutsOfTurn(w))
                /\ Cardinality(RowsOfTurn(w)) <= Len(idx)

\* C28 as claimed: on the non-fallback path every input message is a
\* constituent of exactly one output sentence, every sentence is built
\* from a contiguous run of messages of one turn, and a turn of non-empty
\* messages has one sentence more than cuts.
C28_NothingLostAsClaimed ==
    pc = "done" =>
        /\ \A k \in 1..Len(data_copy) : Occurrences(k) = 1
        /\ \A ii \in 1..Len(row_parts) : ContiguousInTurn(ii) /\ TextKept(ii)
        /\ SentencesOfTurns

\* C28 (amended): on the non-fallback path every input message is a
\* constituent of at most one output sentence, and of exactly one if its
\* text is not blank; every sentence is built from a contiguous run of
\* the messages of one turn_id; a turn without a blank message has one
\* sentence more than cuts, at most as many as messages.
C28_NothingLost ==
    pc = "done" =>
        /\ \A k \in 1..Len(data_copy) :
               /\ Occurrences(k) <= 1
               /\ NonBlank(k) => Occurrences(k) = 1
        /\ \A ii \in 1..Len(row_parts) : ContiguousInTurn(ii) /\ TextKept(ii)
        /\ SentencesOfTurns

\* C28 witness: a run that merged two messages into one sentence and left
\* an empty message out of every sentence.
C28_Witness ==
    /\ pc = "done"
    /\ \E ii \in 1..Len(row_parts) : Len(row_parts[ii]) >= 2
    /\ \E k \in 1..Len(data_copy) : Occurrences(k) = 0

(***************************************************************************)
(* Properties of the sentences of a turn                                   *)
(***************************************************************************)
\* A sentence with something in it and no whitespace at either end.
Trimmed(x) ==
    /\ x # <<>>
    /\ x[1] \notin Whitespace
    /\ x[Len(x)] \notin Whitespace
    /\ \E a \in 1..Len(x) : x[a] \notin Whitespace

\* C29: no sentence emitted by merge_within_turn is empty or
\* whitespace-only, and none has leading or trailing whitespace, whatever
\* the turn and its cuts and merges; a turn of one empty message emits no
\* sentence at all.
C29_SentencesTrimmed ==
    /\ \A k \in 1..Len(out) : Trimmed(out[k].s)
    /\ (pc = "done" /\ Len(messages) = 1 /\ LastText = <<>>) => result = <<>>

\* C29 witness: a sentence was emitted from a buffer that ended with
\* whitespace, in a turn with a cut and a merge.
C29_Witness ==
    /\ pc = "done"
    /\ result # <<>>
    /\ buf # <<>>
    /\ buf[Len(buf)] \in Whitespace
    /\ \E a, b \in 1..Len(steps) : steps[a].cut /\ ~steps[b].cut

\* The adjacent pairs (a, a + 1) of the messages of turn w, as positions
\* in data_copy: the boundaries merge_within_turn scores for that turn.
ScoredPairs ==
    UNION {{<<TurnIndices(data_copy, w)[a], TurnIndices(data_copy, w)[a + 1]>> :
               a \in 1..(Len(TurnIndices(data_copy, w)) - 1)} :
           w \in 0..max_turn}

Datetime(k) == Get(data_copy[k].datetime, None)

\* C30: in every boundary_score call of the pipeline the elapsed time is
\* not None and lies in 0..t_merge_seconds, because the adjacent messages
\* of a turn have valid timestamps within the merge window; so the
\* long-gap signal fires only for gaps in (t_gap_seconds, t_merge_seconds].
C30_ElapsedWithinWindow ==
    pc = "done" =>
        \A pair \in ScoredPairs :
            /\ Datetime(pair[1]) # None
            /\ Datetime(pair[2]) # None
            /\ Datetime(pair[2]).sec - Datetime(pair[1]).sec >= 0
            /\ Datetime(pair[2]).sec - Datetime(pair[1]).sec
                   <= ConfigOrDefault(config).t_merge_seconds

\* C30, where it holds: the inputs in which no message has the user None.
C30_WithoutNoneUser ==
    (\A k \in 1..Len(data) : data[k].user # None) => C30_ElapsedWithinWindow

=============================================================================
